---- MODULE Spec2Model ----
(***************************************************************************)
(* A model of the 4x4 sudoku solver of src/main.rs: the grid and its       *)
(* admissibility predicate, the partially solved grid with its cursor      *)
(* fill_until, the backtracking step make_progress() and the iterator      *)
(* next() built on it.                                                     *)
(*                                                                         *)
(* A Cell (Option<Digit>) is a number: 0 is None, 1..4 are One..Four.      *)
(* A grid (Grid.data) is a function from the cell indices 0..15.           *)
(***************************************************************************)
EXTENDS Integers, Sequences, FiniteSets

BLOCK_SIDE == 2
NB_DIGIT == BLOCK_SIDE * BLOCK_SIDE
NB_CELL == NB_DIGIT * NB_DIGIT

\* The starting grids explored hold at most MaxGivens givens.
MaxGivens == 1
\* Spec explores at most MaxSteps steps (executions of make_progress, alone
\* or as an iteration of the loop of next()) per solver.
MaxSteps == 60

Cells == 0 .. (NB_CELL - 1)
\* Digit::iter(): One, Two, Three, Four in this order.
DigitIter == [k \in 1 .. NB_DIGIT |-> k]
Digits == {DigitIter[k] : k \in 1 .. NB_DIGIT}

\* Grid::empty()
EmptyGrid == [c \in Cells |-> 0]

VARIABLES
    initial_grid,   \* GridSolver.initial_grid: the starting grid, read only
    grid,           \* GridSolver.psg.grid.data: the working grid
    fill_until,     \* GridSolver.psg.fill_until: the cursor
    pc,             \* "idle" between calls, "next" inside the loop of next()
    ret,            \* what the last call that ended returned: [call, ok, grid]
    yielded,        \* the grids the calls of next() have returned so far
    steps           \* steps taken so far (counted and bounded in Spec only)

vars == <<initial_grid, grid, fill_until, pc, ret, yielded, steps>>

----------------------------------------------------------------------------
(* Rows, columns and blocks, and what a consistent grid is (the Grid type's *)
(* documented guarantee).                                                   *)

Row(p) == p \div NB_DIGIT
Col(p) == p % NB_DIGIT
BlockOf(p) == <<Row(p) \div BLOCK_SIDE, Col(p) \div BLOCK_SIDE>>

SameUnit(p, q) == Row(p) = Row(q) \/ Col(p) = Col(q) \/ BlockOf(p) = BlockOf(q)

\* The other cells of p's row, column and block.
Peers == [p \in Cells |-> {q \in Cells : q # p /\ SameUnit(p, q)}]

\* No digit is twice in a row, a column or a block.
Consistent(g) ==
    \A p \in Cells : g[p] # 0 => \A q \in Peers[p] : g[q] # g[p]

Full(g) == \A c \in Cells : g[c] # 0

\* g agrees with the starting grid s on every given of s.
Extends(g, s) == \A c \in Cells : s[c] # 0 => g[c] = s[c]

----------------------------------------------------------------------------
(* Grid::can_accept_digit_at_pos                                           *)

line_does_not_contain_digit(g, d, pos) ==
    LET first_cell_in_line_index == (pos \div NB_DIGIT) * NB_DIGIT
    IN  \A column \in 0 .. (NB_DIGIT - 1) :
            g[first_cell_in_line_index + column] # d

column_does_not_contain_digit(g, d, pos) ==
    LET first_cell_in_column_index == pos % NB_DIGIT
    IN  \A line \in 0 .. (NB_DIGIT - 1) :
            g[first_cell_in_column_index + line * NB_DIGIT] # d

block_does_not_contain_digit(g, d, pos) ==
    LET line_index == pos \div NB_DIGIT
        column_index == pos % NB_DIGIT
        first_cell_in_block_line_index == (line_index \div BLOCK_SIDE) * BLOCK_SIDE
        first_cell_in_block_column_index == (column_index \div BLOCK_SIDE) * BLOCK_SIDE
    IN  \A y \in 0 .. (BLOCK_SIDE - 1) : \A x \in 0 .. (BLOCK_SIDE - 1) :
            g[(y + first_cell_in_block_line_index) * NB_DIGIT
              + x + first_cell_in_block_column_index] # d

\* A mutant: the block is not looked at.
can_accept_without_block(g, d, pos) ==
    /\ line_does_not_contain_digit(g, d, pos)
    /\ column_does_not_contain_digit(g, d, pos)

can_accept_digit_at_pos(g, d, pos) ==
    /\ line_does_not_contain_digit(g, d, pos)
    /\ column_does_not_contain_digit(g, d, pos)
    /\ block_does_not_contain_digit(g, d, pos)

----------------------------------------------------------------------------
(* Next::get_all_next: the digits after the cell's own, in order; all of   *)
(* them for an empty cell.                                                 *)

\* A mutant: skip(1) is missing, the cell's own digit comes first.
get_all_next_without_skip(cell) ==
    IF cell = 0
    THEN DigitIter
    ELSE LET at == CHOOSE k \in 1 .. NB_DIGIT : DigitIter[k] = cell
         IN  SubSeq(DigitIter, at, NB_DIGIT)

get_all_next(cell) ==
    IF cell = 0
    THEN DigitIter
    ELSE LET at == CHOOSE k \in 1 .. NB_DIGIT : DigitIter[k] = cell
         IN  SubSeq(DigitIter, at + 1, NB_DIGIT)

\* The first digit of the sequence ds the grid accepts at pos, 0 when none.
RECURSIVE first_accepted(_, _, _)
first_accepted(g, ds, pos) ==
    IF ds = <<>> THEN 0
    ELSE IF can_accept_digit_at_pos(g, Head(ds), pos) THEN Head(ds)
    ELSE first_accepted(g, Tail(ds), pos)

----------------------------------------------------------------------------
(* PartialySolvedGrid: a record [grid, fill_until]. Its two operations     *)
(* return the new value with the bool they return (ok).                    *)

\* A mutant: the digits are tried last first (Digit::iter().rev()).
try_fill_next_cell_from_last(psg) ==
    IF psg.fill_until = NB_CELL
    THEN [grid |-> psg.grid, fill_until |-> psg.fill_until, ok |-> FALSE,
          underflow |-> FALSE]
    ELSE IF psg.grid[psg.fill_until] # 0
    THEN [grid |-> psg.grid, fill_until |-> psg.fill_until + 1, ok |-> TRUE,
          underflow |-> FALSE]
    ELSE LET d == first_accepted(psg.grid,
                                 [k \in 1 .. NB_DIGIT |-> DigitIter[NB_DIGIT + 1 - k]],
                                 psg.fill_until)
         IN  IF d # 0
             THEN [grid |-> [psg.grid EXCEPT ![psg.fill_until] = d],
                   fill_until |-> psg.fill_until + 1, ok |-> TRUE,
                   underflow |-> FALSE]
             ELSE [grid |-> psg.grid, fill_until |-> psg.fill_until,
                   ok |-> FALSE, underflow |-> FALSE]

\* A mutant: each digit is written to the cell and then checked, so that the
\* last digit tried stays in the cell when none fits.
try_fill_next_cell_writing_first(psg) ==
    IF psg.fill_until = NB_CELL
    THEN [grid |-> psg.grid, fill_until |-> psg.fill_until, ok |-> FALSE,
          underflow |-> FALSE]
    ELSE IF psg.grid[psg.fill_until] # 0
    THEN [grid |-> psg.grid, fill_until |-> psg.fill_until + 1, ok |-> TRUE,
          underflow |-> FALSE]
    ELSE LET d == first_accepted(psg.grid, DigitIter, psg.fill_until)
         IN  IF d # 0
             THEN [grid |-> [psg.grid EXCEPT ![psg.fill_until] = d],
                   fill_until |-> psg.fill_until + 1, ok |-> TRUE,
                   underflow |-> FALSE]
             ELSE [grid |-> [psg.grid EXCEPT ![psg.fill_until] = DigitIter[NB_DIGIT]],
                   fill_until |-> psg.fill_until,
                   ok |-> FALSE, underflow |-> FALSE]

try_fill_next_cell(psg) ==
    IF psg.fill_until = NB_CELL
    THEN [grid |-> psg.grid, fill_until |-> psg.fill_until, ok |-> FALSE,
          underflow |-> FALSE]
    ELSE IF psg.grid[psg.fill_until] # 0
    THEN [grid |-> psg.grid, fill_until |-> psg.fill_until + 1, ok |-> TRUE,
          underflow |-> FALSE]
    ELSE LET d == first_accepted(psg.grid, DigitIter, psg.fill_until)
         IN  IF d # 0
             THEN [grid |-> [psg.grid EXCEPT ![psg.fill_until] = d],
                   fill_until |-> psg.fill_until + 1, ok |-> TRUE,
                   underflow |-> FALSE]
             ELSE [grid |-> psg.grid, fill_until |-> psg.fill_until,
                   ok |-> FALSE, underflow |-> FALSE]

\* fill_until -= 1 on a usize: at 0 the subtraction overflows, which aborts
\* the program in a build with overflow checks (the one the tests run in).
\* underflow records that it happened; the calls below end in "overflow"
\* then, and the cursor is left at 0.
\* A mutant: the cursor is not moved back when no digit fits.
try_increment_without_retreat(psg, cell_index) ==
    LET original_digit == psg.grid[cell_index]
        taken == [psg.grid EXCEPT ![cell_index] = 0]
        d == first_accepted(taken, get_all_next(original_digit), cell_index)
    IN  IF d # 0
        THEN [grid |-> [taken EXCEPT ![cell_index] = d],
              fill_until |-> psg.fill_until, ok |-> TRUE,
              underflow |-> psg.underflow]
        ELSE [grid |-> taken, fill_until |-> psg.fill_until, ok |-> FALSE,
              underflow |-> psg.underflow]

\* A mutant: when no digit fits the cursor is moved to below the cell
\* (fill_until = cell_index - 1), which overflows at cell 0.
try_increment_retreat_below_cell(psg, cell_index) ==
    LET original_digit == psg.grid[cell_index]
        taken == [psg.grid EXCEPT ![cell_index] = 0]
        d == first_accepted(taken, get_all_next(original_digit), cell_index)
    IN  IF d # 0
        THEN [grid |-> [taken EXCEPT ![cell_index] = d],
              fill_until |-> psg.fill_until, ok |-> TRUE,
              underflow |-> psg.underflow]
        ELSE [grid |-> taken,
              fill_until |-> IF cell_index = 0 THEN 0 ELSE cell_index - 1,
              ok |-> FALSE,
              underflow |-> psg.underflow \/ cell_index = 0]

\* A mutant: the cell is read and not taken, so a digit that cannot be
\* incremented stays in its cell.
try_increment_without_take(psg, cell_index) ==
    LET original_digit == psg.grid[cell_index]
        taken == [psg.grid EXCEPT ![cell_index] = 0]
        d == first_accepted(taken, get_all_next(original_digit), cell_index)
    IN  IF d # 0
        THEN [grid |-> [taken EXCEPT ![cell_index] = d],
              fill_until |-> psg.fill_until, ok |-> TRUE,
              underflow |-> psg.underflow]
        ELSE [grid |-> psg.grid,
              fill_until |-> IF psg.fill_until = 0 THEN 0 ELSE psg.fill_until - 1,
              ok |-> FALSE,
              underflow |-> psg.underflow \/ psg.fill_until = 0]

try_increment_cell_at_index(psg, cell_index) ==
    LET original_digit == psg.grid[cell_index]
        taken == [psg.grid EXCEPT ![cell_index] = 0]
        d == first_accepted(taken, get_all_next(original_digit), cell_index)
    IN  IF d # 0
        THEN [grid |-> [taken EXCEPT ![cell_index] = d],
              fill_until |-> psg.fill_until, ok |-> TRUE,
              underflow |-> psg.underflow]
        ELSE [grid |-> taken,
              fill_until |-> IF psg.fill_until = 0 THEN 0 ELSE psg.fill_until - 1,
              ok |-> FALSE,
              underflow |-> psg.underflow \/ psg.fill_until = 0]

----------------------------------------------------------------------------
(* GridSolver                                                              *)

\* The cells below the cursor that are empty in the initial grid, highest
\* index first.
\* A mutant: the givens are not filtered out.
guessed_cells_with_givens(self_psg_fill_until, self_initial_grid_data) ==
    [k \in 1 .. self_psg_fill_until |-> self_psg_fill_until - k]

guessed_cells(self_psg_fill_until, self_initial_grid_data) ==
    SelectSeq([k \in 1 .. self_psg_fill_until |-> self_psg_fill_until - k],
              LAMBDA cell_index : self_initial_grid_data[cell_index] = 0)

\* The loop over the guessed cells: stop at the first that can be incremented.
\* r, the outcome of try_increment_cell_at_index, is bound by a set
\* constructor and not by a LET, so that it is evaluated once: a LET is
\* evaluated again at each of its uses when TLC evaluates ENABLED.
RECURSIVE backtrack(_, _)
backtrack(psg, cells) ==
    IF cells = <<>>
    THEN [grid |-> psg.grid, fill_until |-> psg.fill_until, ok |-> FALSE,
          underflow |-> psg.underflow]
    ELSE CHOOSE outcome \in
             {IF r.ok THEN r ELSE backtrack(r, Tail(cells)) :
                 r \in {try_increment_cell_at_index(psg, Head(cells))}} : TRUE

make_progress(init, psg) ==
    LET filled == try_fill_next_cell(psg)
    IN  IF filled.ok
        THEN filled
        ELSE backtrack(filled, guessed_cells(psg.fill_until, init))

----------------------------------------------------------------------------
(* The starting grids: every consistent grid with at most MaxGivens givens. *)

RECURSIVE GridsWithGivens(_)
GridsWithGivens(k) ==
    IF k = 0 THEN {EmptyGrid}
    ELSE LET S == GridsWithGivens(k - 1)
         IN  S \cup {[g EXCEPT ![p] = d] : g \in S, p \in Cells, d \in Digits}

StartingGrids == {g \in GridsWithGivens(MaxGivens) : Consistent(g)}

----------------------------------------------------------------------------
(* The state machine. ret is what the last call that ended returned:       *)
(*   call "init"           no call yet (Grid::try_solve just built it)     *)
(*   call "make_progress"  ok is the bool returned                         *)
(*   call "next"           ok: Some(grid) was returned; ~ok: None          *)
(*   call "assert_failed"  an assertion of SolvedGrid::from_psg failed     *)
(*   call "overflow"       fill_until -= 1 overflowed                      *)
(* After either of the last two the solver is gone.                        *)

PSG == [grid |-> grid, fill_until |-> fill_until]

\* Grid::try_solve / GridSolver::from_grid
Init ==
    /\ initial_grid \in StartingGrids
    /\ grid = initial_grid
    /\ fill_until = 0
    /\ pc = "idle"
    /\ ret = [call |-> "init", ok |-> FALSE, grid |-> EmptyGrid]
    /\ yielded = {}
    /\ steps = 0

Panicked == ret.call \in {"assert_failed", "overflow"}

\* SolvedGrid::from_psg: its two assertions.
from_psg_asserts(psg) ==
    /\ psg.fill_until = NB_CELL
    /\ \A c \in Cells : psg.grid[c] # 0

\* The state after make_progress() came out as r.
Progressed(r) ==
    /\ grid' = r.grid
    /\ fill_until' = r.fill_until

\* A call of make_progress() from outside (as main() and the tests do).
make_progress_call ==
    /\ pc = "idle"
    /\ LET r == make_progress(initial_grid, PSG)
       IN  /\ Progressed(r)
           /\ ret' = [call |-> IF r.underflow THEN "overflow" ELSE "make_progress",
                      ok |-> r.ok, grid |-> EmptyGrid]
    /\ UNCHANGED <<initial_grid, pc, yielded>>

\* A mutant: the loop of next() without its test of the cursor, so that it
\* never takes a solution.
next_iteration_without_test ==
    /\ LET r == make_progress(initial_grid, PSG)
       IN  /\ Progressed(r)
           /\ IF r.underflow
              THEN /\ ret' = [call |-> "overflow", ok |-> FALSE,
                              grid |-> EmptyGrid]
                   /\ pc' = "idle"
              ELSE IF r.ok
              THEN /\ pc' = "next"
                   /\ UNCHANGED ret
              ELSE /\ ret' = [call |-> "next", ok |-> FALSE, grid |-> EmptyGrid]
                   /\ pc' = "idle"
    /\ UNCHANGED <<initial_grid, yielded>>

\* One iteration of the loop of Iterator::next (the first one enters the
\* call): it returns Some, returns None, panics, or goes round again.
next_iteration ==
    /\ IF fill_until = NB_CELL
       THEN IF from_psg_asserts(PSG)
            THEN LET r == make_progress(initial_grid, PSG)
                 IN  /\ Progressed(r)
                     /\ ret' = [call |-> IF r.underflow THEN "overflow" ELSE "next",
                                ok |-> TRUE, grid |-> grid]
                     /\ pc' = "idle"
            ELSE /\ ret' = [call |-> "assert_failed", ok |-> FALSE,
                            grid |-> EmptyGrid]
                 /\ pc' = "idle"
                 /\ UNCHANGED <<grid, fill_until>>
       ELSE LET r == make_progress(initial_grid, PSG)
            IN  /\ Progressed(r)
                /\ IF r.underflow
                   THEN /\ ret' = [call |-> "overflow", ok |-> FALSE,
                                   grid |-> EmptyGrid]
                        /\ pc' = "idle"
                   ELSE IF r.ok
                   THEN /\ pc' = "next"
                        /\ UNCHANGED ret
                   ELSE /\ ret' = [call |-> "next", ok |-> FALSE, grid |-> EmptyGrid]
                        /\ pc' = "idle"
    /\ yielded' = IF ret'.call = "next" /\ ret'.ok /\ pc' = "idle"
                  THEN yielded \cup {ret'.grid} ELSE yielded
    /\ UNCHANGED initial_grid

MakeProgress ==
    /\ ~Panicked
    /\ steps < MaxSteps
    /\ make_progress_call
    /\ steps' = steps + 1

NextStep ==
    /\ ~Panicked
    /\ steps < MaxSteps
    /\ next_iteration
    /\ steps' = steps + 1

Next == MakeProgress \/ NextStep

Spec == Init /\ [][Next]_vars

\* The solver used as an iterator only: next() is called again and again,
\* for as long as it takes.
IterStep ==
    /\ ~Panicked
    /\ next_iteration
    /\ UNCHANGED steps

IterSpec == Init /\ [][IterStep]_vars /\ WF_vars(IterStep)

----------------------------------------------------------------------------
(* What the calls of next() return.                                        *)

ReturnedNone(r) == r.call = "next" /\ ~r.ok
ReturnedSome(r) == r.call = "next" /\ r.ok

\* A call of next() ends in this step.
NextReturns == pc' = "idle" /\ ret'.call \in {"next", "assert_failed", "overflow"}

\* The grid a read in index order as a numeral (index 0 most significant)
\* is less than the grid b read so: they are digit strings of one length.
NumeralLess(a, b) ==
    \E i \in Cells : a[i] < b[i] /\ \A j \in 0 .. (i - 1) : a[j] = b[j]

----------------------------------------------------------------------------
\* C1: exhaustion is sticky. Once a call of next() has returned None, the
\* next call of next() that ends returns None as well (it neither yields a
\* solution nor panics), so None is all the solver returns from then on.
C1_ExhaustionSticky ==
    [][(ReturnedNone(ret) /\ NextReturns) => ReturnedNone(ret')]_vars

----------------------------------------------------------------------------
(* The solved grids: every full grid with no digit twice in a row, a       *)
(* column or a block, put together from rows that are permutations.        *)

RowPerms ==
    {r \in [0 .. (NB_DIGIT - 1) -> Digits] :
        \A i \in DOMAIN r : \A j \in DOMAIN r : i # j => r[i] # r[j]}

\* Two rows, one above the other, with no digit twice in a column.
RowPairs ==
    {t \in RowPerms \X RowPerms : \A i \in 0 .. (NB_DIGIT - 1) : t[1][i] # t[2][i]}

GridOfRows(rows) == [c \in Cells |-> rows[Row(c) + 1][Col(c)]]

SolvedGrids ==
    {g \in {GridOfRows(<<t[1], t[2], u[1], u[2]>>) : t \in RowPairs, u \in RowPairs} :
        Full(g) /\ Consistent(g)}

\* C2: completeness. Every solved grid that agrees with the starting grid
\* on its givens is returned by some call of next(), when next() is called
\* again and again.
C2_Complete ==
    <>(\A s \in SolvedGrids : Extends(s, initial_grid) => s \in yielded)

----------------------------------------------------------------------------
\* C3: soundness. The grid a call of next() returns is full and holds no
\* digit twice in a row, a column or a block.
C3_Sound == ReturnedSome(ret) => Full(ret.grid) /\ Consistent(ret.grid)

\* A starting grid with a given, and two solutions returned so far.
C3_Witness ==
    initial_grid # EmptyGrid /\ ReturnedSome(ret) /\ Cardinality(yielded) >= 2

----------------------------------------------------------------------------
\* C4: monotonicity. Two consecutive solutions returned by next() on one
\* solver are strictly increasing as numerals, so none is yielded twice.
C4_Monotonic ==
    [][(ReturnedSome(ret) /\ NextReturns /\ ReturnedSome(ret'))
          => NumeralLess(ret.grid, ret'.grid)]_vars

----------------------------------------------------------------------------
\* C5: the solution sequence is finite. Calling next() again and again
\* eventually returns None.
C5_EventuallyNone == <>ReturnedNone(ret)

----------------------------------------------------------------------------
\* C6: clue invariance. The working grid holds the starting grid's digit at
\* every given at all times, and so does the solution next() returns.
C6_ClueInvariance ==
    /\ Extends(grid, initial_grid)
    /\ ReturnedSome(ret) => Extends(ret.grid, initial_grid)

\* A starting grid with a given, two solutions returned (the second one
\* after backtracking over the given), and the search on its way again.
C6_Witness ==
    /\ \E c \in Cells : initial_grid[c] # 0 /\ c + 1 < fill_until
    /\ Cardinality(yielded) >= 2

----------------------------------------------------------------------------
\* C7: no fatal error on legal input. No call panics: the assertions of
\* SolvedGrid::from_psg never fail.
C7_NoAssertFailure == ret.call # "assert_failed"

----------------------------------------------------------------------------
\* C8: from the empty grid the first call of next() returns 1234/3412/2143/
\* 4321 and the call after it 1234/3412/2341/4123.
FirstSolution == GridOfRows(<< [i \in 0 .. 3 |-> <<1, 2, 3, 4>>[i + 1]],
                               [i \in 0 .. 3 |-> <<3, 4, 1, 2>>[i + 1]],
                               [i \in 0 .. 3 |-> <<2, 1, 4, 3>>[i + 1]],
                               [i \in 0 .. 3 |-> <<4, 3, 2, 1>>[i + 1]] >>)

SecondSolution == GridOfRows(<< [i \in 0 .. 3 |-> <<1, 2, 3, 4>>[i + 1]],
                                [i \in 0 .. 3 |-> <<3, 4, 1, 2>>[i + 1]],
                                [i \in 0 .. 3 |-> <<2, 3, 4, 1>>[i + 1]],
                                [i \in 0 .. 3 |-> <<4, 1, 2, 3>>[i + 1]] >>)

C8_FirstTwoSolutions ==
    [][(initial_grid = EmptyGrid /\ NextReturns)
          => /\ (ret.call = "init" /\ yielded = {})
                    => (ReturnedSome(ret') /\ ret'.grid = FirstSolution)
             /\ (ReturnedSome(ret) /\ yielded = {FirstSolution})
                    => (ReturnedSome(ret') /\ ret'.grid = SecondSolution)]_vars

\* The second call on the empty grid has returned.
C8_Witness ==
    /\ initial_grid = EmptyGrid
    /\ pc = "idle"
    /\ ReturnedSome(ret)
    /\ ret.grid = SecondSolution
    /\ yielded = {FirstSolution, SecondSolution}

----------------------------------------------------------------------------
\* C9: can_accept_digit_at_pos(d, p) is false if d is at another position
\* of p's row, column or block, and true otherwise.
OccupiesOther(g, d, p) == \E q \in Peers[p] : g[q] = d

C9_CanAcceptIffNoOther ==
    \A d \in Digits : \A p \in Cells :
        can_accept_digit_at_pos(grid, d, p) = ~OccupiesOther(grid, d, p)

\* C9 as amended: the same, for the positions p that do not hold d
\* themselves (an empty p, or one holding another digit).
C9_CanAcceptUnlessHeld ==
    \A d \in Digits : \A p \in Cells :
        grid[p] # d =>
            (can_accept_digit_at_pos(grid, d, p) = ~OccupiesOther(grid, d, p))

\* A working grid the search has filled two rows of, where a digit is
\* refused because of the block alone, one is accepted at an empty cell, and
\* one is accepted at a cell that holds another digit.
C9_Witness ==
    /\ fill_until >= 2 * NB_DIGIT
    /\ \E d \in Digits : \E p \in Cells :
          /\ grid[p] = 0
          /\ ~can_accept_digit_at_pos(grid, d, p)
          /\ \A q \in Cells : (Row(q) = Row(p) \/ Col(q) = Col(p)) => grid[q] # d
    /\ \E d \in Digits : \E p \in Cells :
          grid[p] = 0 /\ can_accept_digit_at_pos(grid, d, p)
    /\ \E d \in Digits : \E p \in Cells :
          grid[p] \notin {0, d} /\ can_accept_digit_at_pos(grid, d, p)

----------------------------------------------------------------------------
\* C10: the filled prefix. Between calls, every cell of the working grid
\* below fill_until is filled.
C10_FilledPrefix ==
    pc = "idle" => \A c \in Cells : c < fill_until => grid[c] # 0

----------------------------------------------------------------------------
\* C11: the consistency invariant. In every reachable state the working
\* grid holds no digit twice in a row, a column or a block.
C11_Consistency == Consistent(grid)

\* A starting grid with a given and a search that has filled three rows.
C11_Witness ==
    /\ initial_grid # EmptyGrid
    /\ ret.call \in {"make_progress", "next"}
    /\ fill_until >= 3 * NB_DIGIT
    /\ Cardinality({c \in Cells : grid[c] # 0}) >= 3 * NB_DIGIT

----------------------------------------------------------------------------
\* C12: no stale guess beyond the cursor. Every cell at or after fill_until
\* that is empty in the starting grid is empty in the working grid.
C12_NoStaleGuess ==
    \A c \in Cells : (c >= fill_until /\ initial_grid[c] = 0) => grid[c] = 0

\* The cell just below the cursor holds a digit that try_fill_next_cell
\* would not have put there (it was incremented when the search backtracked,
\* which cleared the guesses above it), and a given lies beyond the cursor.
C12_Witness ==
    /\ fill_until > 0
    /\ initial_grid[fill_until - 1] = 0
    /\ grid[fill_until - 1] # 0
    /\ grid[fill_until - 1] #
          first_accepted([grid EXCEPT ![fill_until - 1] = 0], DigitIter,
                         fill_until - 1)
    /\ \E c \in Cells : c >= fill_until /\ grid[c] # 0

----------------------------------------------------------------------------
(* What a call of make_progress() does, whoever makes it: every step runs  *)
(* make_progress() once, but the one in which an assertion of from_psg     *)
(* fails.                                                                  *)

\* The step runs make_progress(), which returns b.
MakeProgressReturns(b) ==
    /\ ret'.call # "assert_failed"
    /\ make_progress(initial_grid, PSG).ok = b

\* try_fill_next_cell fails in the current state: make_progress() backtracks.
TryFillFails == ~try_fill_next_cell(PSG).ok

\* C13: a call of make_progress() that returns true leaves the working grid,
\* read as a numeral, strictly greater than it was.
C13_StrictlyGreater ==
    [][MakeProgressReturns(TRUE) => NumeralLess(grid, grid')]_vars

----------------------------------------------------------------------------
\* C14: the backtracking step. When try_fill_next_cell fails and
\* make_progress() returns true, one cell j alone holds a greater digit than
\* before; j is a guessed cell below the old cursor, the highest for which
\* a greater digit is acceptable once the guessed cells above it are cleared;
\* the guessed cells between j and the old cursor are empty; the cells below
\* j and the givens are unchanged.
GuessedBelowCursor == {c \in Cells : c < fill_until /\ initial_grid[c] = 0}

ClearedAbove(i) ==
    [c \in Cells |-> IF c \in GuessedBelowCursor /\ c > i THEN 0 ELSE grid[c]]

CanIncrement(i) ==
    \E d \in Digits :
        d > grid[i] /\ can_accept_digit_at_pos(ClearedAbove(i), d, i)

C14_BacktrackingStep ==
    [][(TryFillFails /\ MakeProgressReturns(TRUE)) =>
          \E j \in GuessedBelowCursor :
              /\ {c \in Cells : grid'[c] > grid[c]} = {j}
              /\ CanIncrement(j)
              /\ \A i \in GuessedBelowCursor :
                    i > j => ~CanIncrement(i) /\ grid'[i] = 0
              /\ \A c \in Cells :
                    (c < j \/ initial_grid[c] # 0) => grid'[c] = grid[c]]_vars

\* The test make_progress_on_full_grid: from the first solution of the empty
\* grid, make_progress() has backtracked to 1234/3412/23../.... (this grid is
\* not one the search fills forward to: cell 9 holds Three, not One).
C14_Witness ==
    /\ initial_grid = EmptyGrid
    /\ ret.call = "make_progress" /\ ret.ok
    /\ fill_until = 10
    /\ grid = [c \in Cells |-> IF c < 10 THEN <<1, 2, 3, 4, 3, 4, 1, 2, 2, 3>>[c + 1]
                                ELSE 0]

----------------------------------------------------------------------------
(* The calls of try_increment_cell_at_index that make_progress() makes,    *)
(* each as <<the psg it is called on, the cell index>>: the loop goes down *)
(* the guessed cells until a call returns true.                            *)

RECURSIVE increment_calls(_, _)
increment_calls(psg, cells) ==
    IF cells = <<>> THEN {}
    ELSE UNION {{<<psg, Head(cells)>>}
                  \cup (IF r.ok THEN {} ELSE increment_calls(r, Tail(cells))) :
                   r \in {try_increment_cell_at_index(psg, Head(cells))}}

\* Those of a call of make_progress() in the current state.
IncrementCallsFromHere ==
    IF TryFillFails
    THEN increment_calls(try_fill_next_cell(PSG),
                         guessed_cells(fill_until, initial_grid))
    ELSE {}

\* C15: try_increment_cell_at_index(i) clears cell i and puts there the
\* smallest digit greater than the cleared one (any digit for an empty cell)
\* that can_accept_digit_at_pos accepts, returning true with fill_until
\* unchanged; when there is none it leaves the cell empty, decrements
\* fill_until by 1 and returns false. No other cell changes.
IncrementContract(psg, i, r) ==
    LET cleared == [psg.grid EXCEPT ![i] = 0]
        greater == {d \in Digits :
                       d > psg.grid[i] /\ can_accept_digit_at_pos(cleared, d, i)}
    IN  IF greater # {}
        THEN /\ r.ok
             /\ r.fill_until = psg.fill_until
             /\ r.grid = [cleared EXCEPT
                            ![i] = CHOOSE d \in greater : \A e \in greater : d <= e]
        ELSE /\ ~r.ok
             /\ ~r.underflow
             /\ r.fill_until = psg.fill_until - 1
             /\ r.grid = cleared

\* Checked on every call the backtracking loop makes from a reachable state
\* and, the cursor not being 0, on a call on any cell of a reachable state.
C15_IncrementContract ==
    ~Panicked =>
        \A call \in IncrementCallsFromHere
                      \cup (IF fill_until > 0
                            THEN {<<try_fill_next_cell(PSG), i>> : i \in Cells}
                            ELSE {}) :
            IncrementContract(call[1], call[2],
                              try_increment_cell_at_index(call[1], call[2]))

\* A dead end, on a starting grid with a given, from which the loop makes
\* calls that fail on a filled cell and then one that succeeds.
C15_Witness ==
    /\ ~Panicked
    /\ initial_grid # EmptyGrid
    /\ fill_until < NB_CELL
    /\ \E call \in IncrementCallsFromHere :
          /\ call[1].grid[call[2]] # 0
          /\ ~try_increment_cell_at_index(call[1], call[2]).ok
    /\ \E call \in IncrementCallsFromHere :
          try_increment_cell_at_index(call[1], call[2]).ok

----------------------------------------------------------------------------
\* C16: try_fill_next_cell with fill_until < 16. On a filled cell at the
\* cursor: the grid is unchanged, fill_until grows by 1, the result is true.
\* On an empty one with an acceptable digit: the smallest acceptable digit is
\* put there, no other cell changes, fill_until grows by 1, the result is
\* true. Every reachable state is one the operation is called in (it is what
\* make_progress() starts with).
C16_FillContract ==
    (~Panicked /\ fill_until < NB_CELL) =>
        LET r == try_fill_next_cell(PSG)
            acceptable == {d \in Digits :
                              can_accept_digit_at_pos(grid, d, fill_until)}
        IN  /\ grid[fill_until] # 0 =>
                  r.ok /\ r.grid = grid /\ r.fill_until = fill_until + 1
            /\ (grid[fill_until] = 0 /\ acceptable # {}) =>
                  /\ r.ok
                  /\ r.fill_until = fill_until + 1
                  /\ r.grid = [grid EXCEPT ![fill_until] =
                                  CHOOSE d \in acceptable :
                                      \A e \in acceptable : d <= e]

\* A digit other than One was put at the cell below the cursor, which was
\* the smallest acceptable there, and a given is at the cursor.
C16_Witness ==
    /\ ret.call = "make_progress" /\ ret.ok
    /\ 0 < fill_until /\ fill_until < NB_CELL
    /\ grid[fill_until] # 0
    /\ initial_grid[fill_until - 1] = 0
    /\ grid[fill_until - 1] > 1
    /\ grid[fill_until - 1] =
          first_accepted([grid EXCEPT ![fill_until - 1] = 0], DigitIter,
                         fill_until - 1)

----------------------------------------------------------------------------
\* C17: a failing try_fill_next_cell changes nothing. When it returns false
\* the grid and fill_until are as before the call.
C17_FailingFillFrame ==
    (~Panicked /\ TryFillFails) =>
        /\ try_fill_next_cell(PSG).grid = grid
        /\ try_fill_next_cell(PSG).fill_until = fill_until

\* A dead end before the end of the grid, on a starting grid with a given:
\* the cell at the cursor is empty and no digit fits.
C17_Witness ==
    /\ ~Panicked
    /\ TryFillFails
    /\ fill_until < NB_CELL
    /\ grid[fill_until] = 0
    /\ initial_grid # EmptyGrid

----------------------------------------------------------------------------
\* C18: try_fill_next_cell is never called with fill_until = 16: every call
\* of make_progress(), which starts with it, is made with the cursor below 16.
MakeProgressRuns == ret'.call # "assert_failed"

C18_NeverCalledAtEnd == [][MakeProgressRuns => fill_until < NB_CELL]_vars

\* The caller of the make_progress() of a step: a client, line 353 of next()
\* (after the solution is taken), or else line 357 (the loop of next()).
DirectCall == pc' = "idle" /\ ret'.call = "make_progress"
AfterSolution == pc' = "idle" /\ ReturnedSome(ret')

\* C18 as amended: it is never called with fill_until > 16, and with
\* fill_until = 16 only by a client's make_progress() or by the one next()
\* runs after it has taken a solution, never by the loop of next(); it
\* returns false then.
C18_CalledAtEndAfterSolution ==
    [][MakeProgressRuns =>
          /\ fill_until <= NB_CELL
          /\ fill_until = NB_CELL =>
                (DirectCall \/ AfterSolution) /\ TryFillFails]_vars

\* next() has returned a solution and the make_progress() it then ran, with
\* the cursor at 16, has backtracked.
C18_Witness ==
    /\ ReturnedSome(ret)
    /\ pc = "idle"
    /\ fill_until < NB_CELL
    /\ initial_grid # EmptyGrid

----------------------------------------------------------------------------
\* C20: the state exhaustion leaves. When make_progress() returns false the
\* working grid is the starting grid and fill_until is its value before the
\* call less the number of cells below it that are empty in the starting
\* grid.
C20_StateAfterExhaustion ==
    [][MakeProgressReturns(FALSE) =>
          /\ grid' = initial_grid
          /\ fill_until' = fill_until - Cardinality(GuessedBelowCursor)]_vars

\* next() has returned None on a starting grid with a given, after it
\* returned solutions: the grid is the starting grid again, and the cursor
\* is not at 0.
C20_Witness ==
    /\ ReturnedNone(ret)
    /\ yielded # {}
    /\ grid = initial_grid
    /\ fill_until > 0

----------------------------------------------------------------------------
\* C19: the cursor's bounds. fill_until stays within 0..16, and the
\* fill_until -= 1 of try_increment_cell_at_index is never executed at 0.
C19_CursorBounds ==
    /\ ret.call # "overflow"
    /\ fill_until \in 0 .. NB_CELL

\* The backtracking loop has brought the cursor all the way back to 0 after
\* a solution was returned (with the cursor at 16).
C19_Witness ==
    /\ fill_until = 0
    /\ yielded # {}
    /\ ReturnedSome(ret)

====
